---- MODULE Spec2Model ----
(***************************************************************************)
(* A model of the user-profile store of the search agent                   *)
(* (src/user_profile.py): the UserProfile record, its mock-data            *)
(* population, its JSON form, and the UserProfileManager operations with   *)
(* their persistence to one backing file.                                  *)
(*                                                                         *)
(* Environment assumptions of the model:                                   *)
(*   - datetime.now() is read from a clock that never goes backwards;      *)
(*   - uuid4-generated ids do not collide with ids already in the store;   *)
(*   - values passed to update_profile have the type the data model gives  *)
(*     the field they are passed for.                                      *)
(***************************************************************************)
EXTENDS Integers, Sequences, FiniteSets, TLC

VARIABLES profiles, file, now, last, allSavesOk, steps, subject, context,
          agent, run, proc, other, log

vars == <<profiles, file, now, last, allSavesOk, steps, subject, context,
          agent, run, proc, other, log>>

\* the process that runs main, the mapping of a second manager on the same
\* file, and the sequence of the inputs given so far
procVars == <<proc, other, log>>

-----------------------------------------------------------------------------
(* Bounds of the model *)

MaxClock == 1
MaxSteps == 2
MaxRand == 2
MaxInterests == 4
MaxTopics == 3
MaxUrls == 3
MaxRuns == 11

-----------------------------------------------------------------------------
(* Identifiers *)

\* None and the empty string: both are falsy in "user_id or ..." and
\* "if user_id and ..."
NoId == ""

\* ids a caller supplies
UserIds == {"u1"}

\* ids uuid4 can produce (first 8 hex characters)
GenIds == {"3f2a9c1e"}

Ids == UserIds \cup GenIds

EmptyMap == [k \in {} |-> {}]

-----------------------------------------------------------------------------
(* UserProfile *)

DeclaredFields ==
    {"user_id", "name", "city", "interests", "profession", "expertise_level",
     "preferred_topics", "created_at", "last_updated", "interaction_count"}

\* the methods of the class, which hasattr() finds on an instance as well
MethodNames ==
    {"update_profile", "increment_interaction", "get_personalization_context",
     "to_dict", "from_dict", "_generate_user_id"}

\* attributes every object has and that cannot be assigned a string
ReadOnlyAttrs == {"__class__", "__dict__"}

\* UserProfile.__init__: gen is the id uuid4 would give, t1 and t2 are the two
\* readings of the clock.  shadowed is the set of method names that an
\* instance attribute hides (empty on a new object).
UserProfile(user_id, gen, t1, t2) ==
    [user_id           |-> IF user_id # NoId THEN user_id ELSE gen,
     name              |-> "",
     city              |-> "",
     interests         |-> <<>>,
     profession        |-> "",
     expertise_level   |-> "beginner",
     preferred_topics  |-> <<>>,
     created_at        |-> t1,
     last_updated      |-> t2,
     interaction_count |-> 0,
     shadowed          |-> {}]

hasattr(p, key) ==
    key \in DeclaredFields \cup MethodNames \cup ReadOnlyAttrs

\* setattr(self, key, value) for a key that hasattr() accepted
setattr(p, key, value) ==
    IF key \in DeclaredFields
    THEN [p EXCEPT ![key] = value]
    ELSE [p EXCEPT !.shadowed = @ \cup {key}]

\* the loop of UserProfile.update_profile over kwargs (a sequence of
\* <<key, value>> in call order); the result is <<profile, raised>>, raised
\* when setattr refuses the attribute
RECURSIVE apply_kwargs(_, _)
apply_kwargs(p, kwargs) ==
    IF kwargs = <<>> THEN <<p, FALSE>>
    ELSE LET key == Head(kwargs)[1]
             value == Head(kwargs)[2]
         IN IF ~hasattr(p, key) THEN apply_kwargs(p, Tail(kwargs))
            ELSE IF key \in ReadOnlyAttrs THEN <<p, TRUE>>
            ELSE apply_kwargs(setattr(p, key, value), Tail(kwargs))

\* UserProfile.update_profile(**kwargs) at clock reading t
Profile_update_profile(p, kwargs, t) ==
    LET r == apply_kwargs(p, kwargs)
    IN IF r[2] THEN r
       ELSE <<[r[1] EXCEPT !.last_updated = t], FALSE>>

increment_interaction(p) ==
    [p EXCEPT !.interaction_count = @ + 1]

\* str.join
RECURSIVE join(_, _)
join(sep, parts) ==
    IF Len(parts) = 0 THEN ""
    ELSE IF Len(parts) = 1 THEN parts[1]
    ELSE parts[1] \o sep \o join(sep, Tail(parts))

\* a slice that takes one element more
head_slice_one_more(seq, n) ==
    SubSeq(seq, 1, IF Len(seq) < n + 1 THEN Len(seq) ELSE n + 1)

\* seq[:n]
head_slice(seq, n) ==
    SubSeq(seq, 1, IF Len(seq) < n THEN Len(seq) ELSE n)

\* a builder that names the expertise level whatever it is
context_parts_always_expertise(p) ==
    LET helping == <<"You're helping " \o p.name>>
        city == IF p.city # "" THEN Append(helping, "from " \o p.city) ELSE helping
        profession == IF p.profession # ""
                      THEN Append(city, "who works as a " \o p.profession)
                      ELSE city
        interests == IF Len(p.interests) > 0
                     THEN Append(profession,
                                 "who likes " \o join(", ", head_slice(p.interests, 3)))
                     ELSE profession
        expertise == Append(interests, "with " \o p.expertise_level \o " expertise")
    IN IF Len(p.preferred_topics) > 0
       THEN Append(expertise,
                   "and prefers topics like "
                       \o join(", ", head_slice(p.preferred_topics, 2)))
       ELSE expertise

\* context_parts at the end of get_personalization_context, for a profile
\* with a name: each definition of the LET is the list after one "if"
context_parts(p) ==
    LET helping == <<"You're helping " \o p.name>>
        city == IF p.city # "" THEN Append(helping, "from " \o p.city) ELSE helping
        profession == IF p.profession # ""
                      THEN Append(city, "who works as a " \o p.profession)
                      ELSE city
        interests == IF Len(p.interests) > 0
                     THEN Append(profession,
                                 "who likes " \o join(", ", head_slice(p.interests, 3)))
                     ELSE profession
        expertise == IF p.expertise_level # "beginner"
                     THEN Append(interests, "with " \o p.expertise_level \o " expertise")
                     ELSE interests
    IN IF Len(p.preferred_topics) > 0
       THEN Append(expertise,
                   "and prefers topics like "
                       \o join(", ", head_slice(p.preferred_topics, 2)))
       ELSE expertise

get_personalization_context(p) ==
    IF p.name = "" THEN ""
    ELSE join(" ", context_parts(p))
             \o ". Personalize examples and explanations accordingly."

\* datetime.isoformat / datetime.fromisoformat: the text of an instant
isoformat(t) == <<"iso", t>>

IsIsoText(s) == s[1] = "iso"

fromisoformat(s) == s[2]

\* text that is not a timestamp
Garbage == <<"text", 0>>

to_dict(p) ==
    [user_id           |-> p.user_id,
     name              |-> p.name,
     city              |-> p.city,
     interests         |-> p.interests,
     profession        |-> p.profession,
     expertise_level   |-> p.expertise_level,
     preferred_topics  |-> p.preferred_topics,
     created_at        |-> isoformat(p.created_at),
     last_updated      |-> isoformat(p.last_updated),
     interaction_count |-> p.interaction_count]

\* from_dict raises when a timestamp does not parse
from_dict_raises(data) ==
    ~IsIsoText(data.created_at) \/ ~IsIsoText(data.last_updated)

from_dict(data, gen) ==
    [user_id           |-> IF data.user_id # NoId THEN data.user_id ELSE gen,
     name              |-> data.name,
     city              |-> data.city,
     interests         |-> data.interests,
     profession        |-> data.profession,
     expertise_level   |-> data.expertise_level,
     preferred_topics  |-> data.preferred_topics,
     created_at        |-> fromisoformat(data.created_at),
     last_updated      |-> fromisoformat(data.last_updated),
     interaction_count |-> data.interaction_count,
     shadowed          |-> {}]

-----------------------------------------------------------------------------
(* _populate_mock_data and the random module *)

names == <<"Alex", "Sam", "Jordan", "Taylor", "Casey", "Morgan", "Riley", "Quinn">>

cities == <<"San Francisco", "New York", "London", "Tokyo", "Berlin", "Sydney",
            "Toronto", "Paris">>

all_interests ==
    <<"artificial intelligence", "machine learning", "data science", "web development",
      "mobile apps", "cybersecurity", "blockchain", "cloud computing", "IoT", "robotics",
      "quantum computing", "biotechnology", "renewable energy", "space exploration",
      "music", "photography", "cooking", "travel", "fitness", "reading">>

professions ==
    <<"software engineer", "data scientist", "product manager", "designer",
      "researcher", "consultant", "entrepreneur", "student", "teacher", "analyst">>

expertise_levels == <<"beginner", "intermediate", "expert">>

tech_topics ==
    <<"AI and machine learning", "web development", "data analysis",
      "cybersecurity", "cloud computing", "mobile development", "DevOps">>

\* random.choice(seq) with raw generator output r
choice(seq, r) == seq[(r % Len(seq)) + 1]

\* random.randint(a, b) with raw generator output r
randint(a, b, r) == a + (r % (b - a + 1))

\* random.sample(population, k): the pool method the library uses for a
\* population this small; draws[i] is the raw output of the i-th draw
RECURSIVE sample_loop(_, _, _, _)
sample_loop(pool, k, i, draws) ==
    IF i = k THEN <<>>
    ELSE LET n == Len(pool)
             j == draws[i + 1] % (n - i)
         IN <<pool[j + 1]>> \o sample_loop([pool EXCEPT ![j + 1] = pool[n - i]], k, i + 1, draws)

\* a sampler that draws with replacement
sample_with_replacement(population, k, draws) ==
    [i \in 1..k |-> population[(draws[i] % Len(population)) + 1]]

sample(population, k, draws) == sample_loop(population, k, 0, draws)

\* the outputs of the random generator during one _populate_mock_data call:
\* c for the four choice() calls, nI and nT for the two randint() calls, s for
\* the draws of the two sample() calls
RandomOutputs ==
    [c : 0..MaxRand, nI : 0..2, nT : 0..2, s : [1..4 -> 0..MaxRand]]

\* the generator outputs the store specification draws from
StoreRandom ==
    {[c |-> r, nI |-> r, nT |-> r, s |-> [i \in 1..4 |-> r]] : r \in {0, 1}}

\* a population that fills in the name only
populate_name_only(p, rnd) ==
    [p EXCEPT !.name = choice(names, rnd.c)]

populate_mock_data(p, rnd) ==
    [p EXCEPT !.name = choice(names, rnd.c),
              !.city = choice(cities, rnd.c),
              !.interests = sample(all_interests, randint(2, 4, rnd.nI), rnd.s),
              !.profession = choice(professions, rnd.c),
              !.expertise_level = choice(expertise_levels, rnd.c),
              !.preferred_topics = sample(tech_topics, randint(1, 3, rnd.nT), rnd.s)]

-----------------------------------------------------------------------------
(* The backing file *)

\* the file is missing, holds text that is not JSON, or holds a JSON object
\* of user id -> record
MissingFile == [state |-> "missing", data |-> EmptyMap]

UnparsableFile == [state |-> "unparsable", data |-> EmptyMap]

JsonFile(data) == [state |-> "json", data |-> data]

\* outcome of open(storage_file, 'w') and json.dump
IOOutcomes == {"ok", "fail"}

-----------------------------------------------------------------------------
(* UserProfileManager *)

MapPut(m, k, v) == [x \in DOMAIN m \cup {k} |-> IF x = k THEN v ELSE m[x]]

MapDel(m, k) == [x \in DOMAIN m \ {k} |-> m[x]]

\* the dict comprehension of save_profiles calls profile.to_dict() on every
\* profile; the call raises when an instance attribute hides the method
to_dict_raises(profs) ==
    \E k \in DOMAIN profs : "to_dict" \in profs[k].shadowed

save_succeeds(profs, io) == ~to_dict_raises(profs) /\ io = "ok"

\* a save that keeps the records of the file it does not hold itself
save_profiles_merging(profs, f, io) ==
    IF save_succeeds(profs, io)
    THEN JsonFile([k \in DOMAIN profs \cup DOMAIN f.data |->
                      IF k \in DOMAIN profs THEN to_dict(profs[k]) ELSE f.data[k]])
    ELSE f

\* save_profiles: the file after the call (any exception is caught, and the
\* file is then as it was)
save_profiles(profs, f, io) ==
    IF save_succeeds(profs, io)
    THEN JsonFile([k \in DOMAIN profs |-> to_dict(profs[k])])
    ELSE f

\* load_profiles: the mapping after the call
load_profiles(profs, f, gen) ==
    IF f.state = "missing" THEN profs
    ELSE IF f.state = "unparsable" THEN EmptyMap
    ELSE IF \E k \in DOMAIN f.data : from_dict_raises(f.data[k]) THEN EmptyMap
    ELSE [k \in DOMAIN f.data |-> from_dict(f.data[k], gen)]

\* what a call leaves behind: the mapping, the file, whether it returned or
\* raised, its boolean result (found / success), the keys of the profiles it
\* returned, and what became of its save ("none" when it did not save)
Result(profs, f, outcome, ok, ids, saved) ==
    [profiles |-> profs, file |-> f, outcome |-> outcome, ok |-> ok,
     ids |-> ids, saved |-> saved]

Saved(profs, io) == IF save_succeeds(profs, io) THEN "ok" ELSE "failed"

get_or_create_profile(profs, f, user_id, gen, t1, t2, rnd, io) ==
    IF user_id # NoId /\ user_id \in DOMAIN profs
    THEN IF "increment_interaction" \in profs[user_id].shadowed
         THEN Result(profs, f, "raised", FALSE, {}, "none")
         ELSE Result([profs EXCEPT ![user_id] = increment_interaction(@)], f,
                     "returned", TRUE, {user_id}, "none")
    ELSE LET profile == populate_mock_data(UserProfile(user_id, gen, t1, t2), rnd)
             after == MapPut(profs, profile.user_id, profile)
         IN Result(after, save_profiles(after, f, io), "returned", TRUE,
                   {profile.user_id}, Saved(after, io))

\* an update that lets a failed save reach its caller
update_known_save_raises(profs, f, user_id, kwargs, t, io) ==
    IF "update_profile" \in profs[user_id].shadowed
    THEN Result(profs, f, "raised", FALSE, {}, "none")
    ELSE LET r == Profile_update_profile(profs[user_id], kwargs, t)
             after == [profs EXCEPT ![user_id] = r[1]]
         IN IF r[2]
            THEN Result(after, f, "raised", FALSE, {}, "none")
            ELSE IF save_succeeds(after, io)
            THEN Result(after, save_profiles(after, f, io), "returned", TRUE, {}, "ok")
            ELSE Result(after, f, "raised", FALSE, {}, "failed")

\* the branch of update_profile for a user id in the mapping
update_known(profs, f, user_id, kwargs, t, io) ==
    IF "update_profile" \in profs[user_id].shadowed
    THEN Result(profs, f, "raised", FALSE, {}, "none")
    ELSE LET r == Profile_update_profile(profs[user_id], kwargs, t)
             after == [profs EXCEPT ![user_id] = r[1]]
         IN IF r[2]
            THEN Result(after, f, "raised", FALSE, {}, "none")
            ELSE Result(after, save_profiles(after, f, io), "returned", TRUE,
                        {}, Saved(after, io))

\* the parameters of update_profile(self, user_id, **kwargs): a keyword
\* argument with one of these names is a TypeError at the call ("got multiple
\* values for argument")
ParameterNames == {"self", "user_id"}

\* an update that hands every keyword argument to the profile
update_profile_any_keyword(profs, f, user_id, kwargs, t, io) ==
    IF user_id \in DOMAIN profs
    THEN update_known(profs, f, user_id, kwargs, t, io)
    ELSE Result(profs, f, "returned", FALSE, {}, "none")

update_profile(profs, f, user_id, kwargs, t, io) ==
    IF \E i \in 1..Len(kwargs) : kwargs[i][1] \in ParameterNames
    THEN Result(profs, f, "raised", FALSE, {}, "none")
    ELSE IF user_id \in DOMAIN profs
    THEN update_known(profs, f, user_id, kwargs, t, io)
    ELSE Result(profs, f, "returned", FALSE, {}, "none")

\* a lookup that counts as an interaction
get_profile_counting(profs, f, user_id) ==
    IF user_id \in DOMAIN profs
    THEN Result([profs EXCEPT ![user_id] = increment_interaction(@)], f,
                "returned", TRUE, {user_id}, "none")
    ELSE Result(profs, f, "returned", FALSE, {}, "none")

get_profile(profs, f, user_id) ==
    IF user_id \in DOMAIN profs
    THEN Result(profs, f, "returned", TRUE, {user_id}, "none")
    ELSE Result(profs, f, "returned", FALSE, {}, "none")

list_profiles(profs, f) ==
    Result(profs, f, "returned", TRUE, DOMAIN profs, "none")

\* a delete that does not persist
delete_profile_no_save(profs, f, user_id, io) ==
    IF user_id \in DOMAIN profs
    THEN Result(MapDel(profs, user_id), f, "returned", TRUE, {}, "none")
    ELSE Result(profs, f, "returned", FALSE, {}, "none")

delete_profile(profs, f, user_id, io) ==
    IF user_id \in DOMAIN profs
    THEN LET after == MapDel(profs, user_id)
         IN Result(after, save_profiles(after, f, io), "returned", TRUE, {},
                   Saved(after, io))
    ELSE Result(profs, f, "returned", FALSE, {}, "none")

-----------------------------------------------------------------------------
(* The tools (src/main.py): search and extract_content *)

\* one upstream call: the API ("search", "extract" or "chat"), the caller,
\* what was sent, and whether the call succeeded
ApiCall(api, who, sent, ok) == [api |-> api, who |-> who, sent |-> sent, ok |-> ok]

\* what an operation of main.py leaves behind: whether it returned or raised,
\* the kind of value returned ("text", "error" for an error string, "none"
\* for None, "dict" for a dict of url -> string), the value, the upstream
\* calls it made, in order, and for a tool call in flight its arguments
Outcome(op, outcome, kind, text, entries, calls) ==
    [op |-> op, outcome |-> outcome, kind |-> kind, text |-> text,
     entries |-> entries, calls |-> calls, urls |-> <<>>, fails |-> <<>>]

\* no operation has run
NoRun == Outcome("none", "returned", "none", "", EmptyMap, <<>>)

\* the text of the exception an upstream call raises
UpstreamError == "connection refused"

\* search(query): the search API call succeeds (ok) or raises
search(query, ok) ==
    IF ok
    THEN Outcome("search", "returned", "text",
                 "Search results for '" \o query \o "': results",
                 EmptyMap, <<ApiCall("search", "search", query, TRUE)>>)
    ELSE Outcome("search", "returned", "error",
                 "Error during search: " \o UpstreamError,
                 EmptyMap, <<ApiCall("search", "search", query, FALSE)>>)

\* the text the extraction API returns for a url
ExtractedContent(url) == "content of " \o url

\* the loop of extract_content from the i-th url on; fails[i] says whether
\* the i-th call raises
RECURSIVE extract_loop(_, _, _, _, _)
extract_loop(urls, fails, i, results, calls) ==
    IF i > Len(urls)
    THEN Outcome("extract_content", "returned", "dict", "", results, calls)
    ELSE LET url == urls[i]
         IN extract_loop(urls, fails, i + 1,
                MapPut(results, url,
                       IF fails[i]
                       THEN "Error extracting content from " \o url \o ": "
                                \o UpstreamError
                       ELSE ExtractedContent(url)),
                Append(calls, ApiCall("extract", "extract_content", url, ~fails[i])))

\* an extraction that the first failing url ends
extract_content_failure_aborts(urls, fails) ==
    LET bad == {i \in 1..Len(urls) : fails[i]}
    IN IF bad = {} THEN extract_loop(urls, fails, 1, EmptyMap, <<>>)
       ELSE LET k == CHOOSE i \in bad : \A j \in bad : i <= j
                done == extract_loop(SubSeq(urls, 1, k - 1), fails, 1, EmptyMap, <<>>)
            IN Outcome("extract_content", "raised", "none", "", done.entries,
                       Append(done.calls,
                              ApiCall("extract", "extract_content", urls[k], FALSE)))

extract_content(urls, fails) == extract_loop(urls, fails, 1, EmptyMap, <<>>)

-----------------------------------------------------------------------------
(* PersonalizedSearchAgent and MultiAgentTeam (src/main.py) *)

\* config.AGENT_INSTRUCTIONS (the text is abridged)
AGENT_INSTRUCTIONS == "You are a Search AI Agent"

\* PersonalizedSearchAgent.__init__; has_agent says whether set_user has
\* assigned self.agent, user_profile is the id of the profile set_user found
\* (NoId for None)
PersonalizedSearchAgent ==
    [current_user_id |-> NoId, user_profile |-> NoId, has_agent |-> FALSE,
     instructions |-> "", interaction_history |-> <<>>]

\* _create_personalized_instructions (the guidelines text is abridged)
create_personalized_instructions(personalization_context) ==
    IF personalization_context # ""
    THEN personalization_context \o " " \o AGENT_INSTRUCTIONS
             \o " Additional Personalization Guidelines"
    ELSE AGENT_INSTRUCTIONS

\* set_user(user_id): <<agent, result of the store call, raised>>;
\* get_user_context is called whatever user_id is
set_user(ag, profs, f, user_id, gen, t, rnd, io) ==
    LET found == IF user_id # NoId /\ user_id \in DOMAIN profs THEN user_id ELSE NoId
        assigned == [ag EXCEPT !.current_user_id = user_id, !.user_profile = found]
        r == get_or_create_profile(profs, f, user_id, gen, t, t, rnd, io)
        profile == r.profiles[CHOOSE k \in r.ids : TRUE]
    IN IF r.outcome = "raised" THEN <<assigned, r, TRUE>>
       ELSE IF "get_personalization_context" \in profile.shadowed
       THEN <<assigned, r, TRUE>>
       ELSE <<[assigned EXCEPT
                  !.has_agent = TRUE,
                  !.instructions =
                      create_personalized_instructions(
                          get_personalization_context(profile))],
              r, FALSE>>

\* a history that drops the newest interaction when it is full
add_interaction_keeps_oldest(history, query, response, t) ==
    IF Len(history) >= 10 THEN history
    ELSE Append(history,
                [timestamp |-> t, query |-> query,
                 response |-> IF Len(response) > 200
                              THEN SubSeq(response, 1, 200) \o "..."
                              ELSE response])

\* add_interaction(query, response) at loop time t
add_interaction(history, query, response, t) ==
    LET interaction ==
            [timestamp |-> t, query |-> query,
             response |-> IF Len(response) > 200
                          THEN SubSeq(response, 1, 200) \o "..."
                          ELSE response]
        appended == Append(history, interaction)
    IN IF Len(appended) > 10 THEN Tail(appended) ELSE appended

\* PersonalizedSearchAgent.run(query): <<agent, result of the store call,
\* outcome>>; reply is what Runner.run gives (ok and the final output, or the
\* call raises).  Every exception inside the try block ends in "return None".
agent_run(ag, profs, f, query, reply, t, io) ==
    LET unchanged == Result(profs, f, "returned", TRUE, {}, "none")
        chat == ApiCall("chat", "agent", query, reply.ok)
        history == add_interaction(ag.interaction_history, query, reply.text, t)
        tracked == [ag EXCEPT !.interaction_history = history]
        r == IF ag.current_user_id # NoId
             THEN update_profile(profs, f, ag.current_user_id,
                                 <<<<"interaction_count", Len(history)>>>>, t, io)
             ELSE unchanged
    IN IF ~ag.has_agent
       THEN <<ag, unchanged, Outcome("agent_run", "returned", "none", "", EmptyMap, <<>>)>>
       ELSE IF ~reply.ok
       THEN <<ag, unchanged,
              Outcome("agent_run", "returned", "none", "", EmptyMap, <<chat>>)>>
       ELSE IF r.outcome = "raised"
       THEN <<tracked, r,
              Outcome("agent_run", "returned", "none", "", EmptyMap, <<chat>>)>>
       ELSE <<tracked, r,
              Outcome("agent_run", "returned", "text", reply.text, EmptyMap, <<chat>>)>>

\* the three prompts of MultiAgentTeam.run (the fixed parts are abridged)
researcher_prompt(query) ==
    "You will research the following user query. Query: " \o query

\* a prompt for the analyst that leaves the brief out
analyst_prompt_without_brief(research_brief) ==
    "Synthesize the following research brief. Research Brief: "

analyst_prompt(research_brief) ==
    "Synthesize the following research brief. Research Brief: " \o research_brief

writer_prompt(analysis) ==
    "Polish the analysis for the end user. Analysis: " \o analysis

\* MultiAgentTeam.run(query): replies[i] is what the i-th Runner.run gives;
\* there is no try block, so a call that raises ends the run
team_run(query, replies) ==
    LET c1 == ApiCall("chat", "researcher", researcher_prompt(query), replies[1].ok)
        c2 == ApiCall("chat", "analyst", analyst_prompt(replies[1].text), replies[2].ok)
        c3 == ApiCall("chat", "writer", writer_prompt(replies[2].text), replies[3].ok)
    IN IF ~replies[1].ok
       THEN Outcome("team_run", "raised", "none", "", EmptyMap, <<c1>>)
       ELSE IF ~replies[2].ok
       THEN Outcome("team_run", "raised", "none", "", EmptyMap, <<c1, c2>>)
       ELSE IF ~replies[3].ok
       THEN Outcome("team_run", "raised", "none", "", EmptyMap, <<c1, c2, c3>>)
       ELSE Outcome("team_run", "returned", "text", replies[3].text, EmptyMap,
                    <<c1, c2, c3>>)

-----------------------------------------------------------------------------
(* main and the command line (src/main.py) *)

\* a process started with the arguments argv (sys.argv[1:]) and the two API
\* keys set or not: whether it is running, has returned from main or has
\* exited, its exit status, whether the setup instructions were printed,
\* whether the "Fatal error" handler of main ran, the components created
\* (client, provider, model, agent, team), the profile-management command
\* handled, and which of the single agent and the team ran the query
Process(argv, gemini_key, tavily_key) ==
    [argv |-> argv, gemini_key |-> gemini_key, tavily_key |-> tavily_key,
     status |-> "started", exit_code |-> 0, setup_printed |-> FALSE,
     fatal |-> FALSE, created |-> {}, command |-> "none", mode |-> "none"]

\* no process runs main
NoProcess == [Process(<<>>, TRUE, TRUE) EXCEPT !.status = "none"]

\* config.DEFAULT_QUERY (abridged)
DEFAULT_QUERY == "Research recent developments in AI and machine learning"

\* x in args
In(x, args) == \E i \in 1..Len(args) : args[i] = x

\* args.index(x) + 1, for x in args
index(args, x) ==
    CHOOSE i \in 1..Len(args) : args[i] = x /\ \A j \in 1..(i - 1) : args[j] # x

\* args after args.pop(i - 1)
pop(args, i) == SubSeq(args, 1, i - 1) \o SubSeq(args, i + 1, Len(args))

\* what handle_user_commands returns: a tuple of two None, or the triple
\* (query, user_id, team_mode); command is the command it handled and store
\* what its store call left
Handled(size, query, user_id, team_mode, command, store) ==
    [size |-> size, query |-> query, user_id |-> user_id, team_mode |-> team_mode,
     command |-> command, store |-> store]

\* the last part of handle_user_commands: --user-id, --team and the query
parse_query(args, store) ==
    LET idx == index(args, "--user-id")
        has_id == In("--user-id", args) /\ idx < Len(args)
        user_id == IF has_id THEN args[idx + 1] ELSE NoId
        popped == IF has_id THEN pop(pop(args, idx), idx) ELSE args
        team_mode == In("--team", popped)
        rest == IF team_mode THEN pop(popped, index(popped, "--team")) ELSE popped
    IN Handled(3, IF Len(rest) > 0 THEN join(" ", rest) ELSE DEFAULT_QUERY,
               user_id, team_mode, "none", store)

\* handle_user_commands(args); an exception of the update is caught and
\* reported
handle_user_commands(args, profs, f, t, io) ==
    LET untouched == Result(profs, f, "returned", TRUE, {}, "none")
        show == index(args, "--show-profile")
        upd == index(args, "--update-profile")
    IN IF In("--help", args)
       THEN Handled(2, "", NoId, FALSE, "help", untouched)
       ELSE IF In("--list-users", args)
       THEN Handled(2, "", NoId, FALSE, "list", list_profiles(profs, f))
       ELSE IF In("--show-profile", args)
       THEN Handled(2, "", NoId, FALSE, "show",
                    IF show < Len(args)
                    THEN get_profile(profs, f, args[show + 1])
                    ELSE untouched)
       ELSE IF In("--update-profile", args)
       THEN Handled(2, "", NoId, FALSE, "update",
                    IF upd + 2 < Len(args)
                    THEN update_profile(profs, f, args[upd + 1],
                                        <<<<args[upd + 2], args[upd + 3]>>>>, t, io)
                    ELSE untouched)
       ELSE parse_query(args, untouched)

\* a check of the environment that looks at one key only
load_environment_one_key(p) ==
    IF ~p.gemini_key
    THEN [p EXCEPT !.status = "exited", !.exit_code = 1, !.setup_printed = TRUE]
    ELSE p

\* the checks of load_environment: the process goes on, or prints the setup
\* instructions and exits with status 1
load_environment(p) ==
    IF ~p.gemini_key \/ ~p.tavily_key
    THEN [p EXCEPT !.status = "exited", !.exit_code = 1, !.setup_printed = TRUE]
    ELSE p

\* the "except Exception" handler of main
fatal_error(p) == [p EXCEPT !.status = "exited", !.exit_code = 1, !.fatal = TRUE]

\* what main leaves behind: the process, the agent, what the store calls
\* left, and the query operation that ran
Ran(p, ag, store, outcome) == [proc |-> p, agent |-> ag, store |-> store, run |-> outcome]

\* run_agent(query, user_id): set_user, then agent.run; any exception is
\* caught and None returned
run_agent(p, ag, profs, f, query, user_id, gen, t, rnd, io1, reply, io2) ==
    LET su == set_user(ag, profs, f, user_id, gen, t, rnd, io1)
        ar == agent_run(su[1], su[2].profiles, su[2].file, query, reply, t, io2)
        done == [p EXCEPT !.status = "returned", !.mode = "agent"]
    IN IF su[3]
       THEN Ran(done, su[1], su[2],
                Outcome("agent_run", "returned", "none", "", EmptyMap, <<>>))
       ELSE Ran(done, ar[1],
                [ar[2] EXCEPT !.saved = IF ar[2].saved = "none" THEN su[2].saved ELSE @],
                ar[3])

\* the team branch of main: the context of the user when a user id is given,
\* the team, and team.run; an exception reaches the handler of main
run_team(p, ag, profs, f, query, user_id, gen, t, rnd, io1, replies) ==
    LET untouched == Result(profs, f, "returned", TRUE, {}, "none")
        r == IF user_id # NoId
             THEN get_or_create_profile(profs, f, user_id, gen, t, t, rnd, io1)
             ELSE untouched
        raised == \/ r.outcome = "raised"
                  \/ /\ user_id # NoId
                     /\ "get_personalization_context"
                            \in r.profiles[CHOOSE k \in r.ids : TRUE].shadowed
        team == [p EXCEPT !.created = @ \cup {"team"}, !.mode = "team"]
        out == team_run(query, replies)
    IN IF raised THEN Ran(fatal_error(p), ag, r, NoRun)
       ELSE IF out.outcome = "raised" THEN Ran(fatal_error(team), ag, r, out)
       ELSE Ran([team EXCEPT !.status = "returned"], ag, r, out)

\* main() in a process that has just started
main(p, ag, profs, f, gen, t, rnd, io1, io2, reply, replies) ==
    LET untouched == Result(profs, f, "returned", TRUE, {}, "none")
        env == load_environment(p)
        ready == [p EXCEPT !.created = {"tavily_client", "provider", "model", "agent"}]
        h == IF Len(p.argv) > 0
             THEN handle_user_commands(p.argv, profs, f, t, io1)
             ELSE Handled(3, DEFAULT_QUERY, NoId, FALSE, "none", untouched)
        handled == [ready EXCEPT !.command = h.command]
    IN IF env.status = "exited" THEN Ran(env, ag, untouched, NoRun)
       ELSE IF h.size # 3 THEN Ran(fatal_error(handled), ag, h.store, NoRun)
       ELSE IF h.team_mode
       THEN run_team(handled, ag, profs, f, h.query, h.user_id, gen, t, rnd, io1, replies)
       ELSE run_agent(handled, ag, profs, f, h.query, h.user_id, gen, t, rnd, io1,
                      reply, io2)

-----------------------------------------------------------------------------
(* Inputs of the store specification *)

\* keyword maps passed to update_profile, as sequences of <<key, value>>
FieldMaps ==
    {<<>>,
     <<<<"name", "Sam">>>>,
     <<<<"city", "Lahore">>>>,
     <<<<"interaction_count", 0>>>>,
     <<<<"last_updated", 0>>>>,
     <<<<"created_at", MaxClock + 1>>>>,
     <<<<"user_id", "u2">>>>,
     <<<<"nickname", "Sammy">>>>,
     <<<<"to_dict", "x">>>>,
     <<<<"increment_interaction", "x">>>>,
     <<<<"update_profile", "x">>>>,
     <<<<"__class__", "x">>>>,
     <<<<"city", "Lahore">>, <<"nickname", "Sammy">>>>}

\* the profile an earlier session created for "u1" and saved
EarlierProfile ==
    populate_mock_data(UserProfile("u1", "3f2a9c1e", 0, 0),
                       [c |-> 0, nI |-> 0, nT |-> 0, s |-> [i \in 1..4 |-> 0]])

\* the backing file when the store is constructed: missing, not JSON, the
\* file an earlier session left, or one with a record whose timestamp does
\* not parse
InitFiles ==
    {MissingFile,
     UnparsableFile,
     JsonFile([k \in {"u1"} |-> to_dict(EarlierProfile)]),
     JsonFile([k \in {"u1"} |-> [to_dict(EarlierProfile) EXCEPT !.created_at = Garbage]])}

-----------------------------------------------------------------------------
(* The store specification: one manager and its backing file *)

\* last records the latest call: the operation, its user id and keyword
\* arguments, and what Result says of it
Call(op, arg, kwargs, r) ==
    /\ profiles' = r.profiles
    /\ file' = r.file
    /\ last' = [op |-> op, arg |-> arg, kwargs |-> kwargs, outcome |-> r.outcome,
                ok |-> r.ok, ids |-> r.ids, saved |-> r.saved]
    /\ allSavesOk' = (allSavesOk /\ r.saved # "failed")
    /\ steps' = steps + 1
    /\ UNCHANGED <<subject, context, agent, run, procVars>>

\* UserProfileManager.__init__ on each possible backing file
Init ==
    /\ file \in InitFiles
    /\ profiles = load_profiles(EmptyMap, file, "3f2a9c1e")
    /\ now = 0
    /\ last = [op |-> "init", arg |-> NoId, kwargs |-> <<>>, outcome |-> "returned",
               ok |-> TRUE, ids |-> {}, saved |-> "none"]
    /\ allSavesOk = TRUE
    /\ steps = 0
    /\ subject = UserProfile(NoId, NoId, 0, 0)
    /\ context = ""
    /\ agent = PersonalizedSearchAgent
    /\ run = NoRun
    /\ proc = NoProcess
    /\ other = EmptyMap
    /\ log = <<>>

GetOrCreate(user_id, gen, t2, rnd, io) ==
    /\ steps < MaxSteps
    /\ gen \notin DOMAIN profiles
    /\ t2 >= now
    /\ Call("getOrCreate", user_id, <<>>,
            get_or_create_profile(profiles, file, user_id, gen, now, t2, rnd, io))
    /\ now' = IF user_id # NoId /\ user_id \in DOMAIN profiles THEN now ELSE t2

Update(user_id, kwargs, io) ==
    /\ steps < MaxSteps
    /\ Call("update", user_id, kwargs, update_profile(profiles, file, user_id, kwargs, now, io))
    /\ UNCHANGED now

Get(user_id) ==
    /\ steps < MaxSteps
    /\ Call("get", user_id, <<>>, get_profile(profiles, file, user_id))
    /\ UNCHANGED now

List ==
    /\ steps < MaxSteps
    /\ Call("list", NoId, <<>>, list_profiles(profiles, file))
    /\ UNCHANGED now

Delete(user_id, io) ==
    /\ steps < MaxSteps
    /\ Call("delete", user_id, <<>>, delete_profile(profiles, file, user_id, io))
    /\ UNCHANGED now

Load(gen) ==
    /\ steps < MaxSteps
    /\ Call("load", NoId, <<>>,
            Result(load_profiles(profiles, file, gen), file, "returned", TRUE, {}, "none"))
    /\ UNCHANGED now

Save(io) ==
    /\ steps < MaxSteps
    /\ Call("save", NoId, <<>>,
            Result(profiles, save_profiles(profiles, file, io), "returned", TRUE, {},
                   Saved(profiles, io)))
    /\ UNCHANGED now

\* time passes between calls
Tick ==
    /\ now < MaxClock
    /\ now' = now + 1
    /\ UNCHANGED <<profiles, file, last, allSavesOk, steps, subject, context,
                   agent, run, procVars>>

Next ==
    \/ \E user_id \in Ids \cup {NoId}, gen \in GenIds, t2 \in 0..MaxClock,
          rnd \in StoreRandom, io \in IOOutcomes :
          GetOrCreate(user_id, gen, t2, rnd, io)
    \/ \E user_id \in Ids, kwargs \in FieldMaps, io \in IOOutcomes :
          Update(user_id, kwargs, io)
    \/ \E user_id \in Ids : Get(user_id)
    \/ List
    \/ \E user_id \in Ids, io \in IOOutcomes : Delete(user_id, io)
    \/ \E gen \in GenIds : Load(gen)
    \/ \E io \in IOOutcomes : Save(io)
    \/ Tick

Spec == Init /\ [][Next]_vars

-----------------------------------------------------------------------------
(* The creation specification: one get_or_create_profile call on each      *)
(* store the constructor can leave, over all outputs of the generator      *)

CreateOnce ==
    /\ steps = 0
    /\ \E user_id \in Ids \cup {NoId}, gen \in GenIds, t2 \in 0..MaxClock,
          rnd \in RandomOutputs, io \in IOOutcomes :
          GetOrCreate(user_id, gen, t2, rnd, io)

NextCreate == CreateOnce

SpecCreate == Init /\ [][NextCreate]_vars

-----------------------------------------------------------------------------
(* The session specification: on each store the constructor can leave, a   *)
(* get_or_create_profile call, then an update_profile call, then a         *)
(* get_user_context call                                                   *)

\* get_user_context(user_id): get_or_create_profile, then the context of the
\* profile it returned; calling the builder raises when an instance attribute
\* hides it
GetUserContext(user_id, gen, t2, rnd, io) ==
    LET r == get_or_create_profile(profiles, file, user_id, gen, now, t2, rnd, io)
        returned == r.outcome = "returned"
        profile == r.profiles[CHOOSE k \in r.ids : TRUE]
        built == returned /\ "get_personalization_context" \notin profile.shadowed
    IN /\ gen \notin DOMAIN profiles
       /\ t2 >= now
       /\ profiles' = r.profiles
       /\ file' = r.file
       /\ last' = [op |-> "context", arg |-> user_id, kwargs |-> <<>>,
                   outcome |-> IF built THEN "returned" ELSE "raised",
                   ok |-> built, ids |-> r.ids, saved |-> r.saved]
       /\ allSavesOk' = (allSavesOk /\ r.saved # "failed")
       /\ steps' = steps + 1
       /\ now' = IF user_id # NoId /\ user_id \in DOMAIN profiles THEN now ELSE t2
       /\ subject' = IF returned THEN profile ELSE subject
       /\ context' = IF built THEN get_personalization_context(profile) ELSE context
       /\ UNCHANGED <<agent, run, procVars>>

SessionCreate ==
    /\ steps = 0
    /\ \E user_id \in Ids \cup {NoId}, gen \in GenIds, t2 \in 0..MaxClock,
          rnd \in StoreRandom, io \in IOOutcomes :
          GetOrCreate(user_id, gen, t2, rnd, io)

SessionUpdate ==
    /\ steps = 1
    /\ \E user_id \in Ids, kwargs \in FieldMaps, io \in IOOutcomes :
          Update(user_id, kwargs, io)

SessionContext ==
    /\ steps = 2
    /\ \E user_id \in Ids \cup {NoId}, gen \in GenIds, t2 \in 0..MaxClock,
          rnd \in StoreRandom, io \in IOOutcomes :
          GetUserContext(user_id, gen, t2, rnd, io)

NextSession ==
    \/ SessionCreate
    \/ SessionUpdate
    \/ SessionContext

SpecSession == Init /\ [][NextSession]_vars

-----------------------------------------------------------------------------
(* The context specification: get_personalization_context applied once to  *)
(* each profile of a bounded set                                           *)

\* profiles with each field empty or set, every expertise level, and every
\* length of the two lists up to the bounds
ContextProfiles ==
    {[UserProfile("u1", "3f2a9c1e", 0, 0) EXCEPT
          !.name = n, !.city = c, !.profession = pr,
          !.interests = SubSeq(all_interests, 1, i),
          !.expertise_level = e,
          !.preferred_topics = SubSeq(tech_topics, 1, t)] :
        n \in {"", "Alex", "Sam"}, c \in {"", "Lahore"}, pr \in {"", "teacher"},
        i \in 0..MaxInterests, e \in {"beginner", "intermediate", "expert"},
        t \in 0..MaxTopics}

InitContext ==
    /\ file = MissingFile
    /\ profiles = EmptyMap
    /\ now = 0
    /\ last = [op |-> "init", arg |-> NoId, kwargs |-> <<>>, outcome |-> "returned",
               ok |-> TRUE, ids |-> {}, saved |-> "none"]
    /\ allSavesOk = TRUE
    /\ steps = 0
    /\ subject \in ContextProfiles
    /\ context = ""
    /\ agent = PersonalizedSearchAgent
    /\ run = NoRun
    /\ proc = NoProcess
    /\ other = EmptyMap
    /\ log = <<>>

\* subject.get_personalization_context()
BuildContext ==
    /\ steps = 0
    /\ context' = get_personalization_context(subject)
    /\ last' = [last EXCEPT !.op = "context"]
    /\ steps' = steps + 1
    /\ UNCHANGED <<profiles, file, now, allSavesOk, subject, agent, run, procVars>>

NextContext == BuildContext

SpecContext == InitContext /\ [][NextContext]_vars

-----------------------------------------------------------------------------
(* The agent specification: on each store the constructor can leave, the   *)
(* operations of the single agent, the team and the search tool            *)

Queries == {"latest AI news"}

RECURSIVE Repeat(_, _)
Repeat(text, n) == IF n = 0 THEN "" ELSE text \o Repeat(text, n - 1)

\* a final output of more than 200 characters
LongAnswer == Repeat("0123456789", 21)

\* what Runner.run gives: a final output, or the chat-completion call raises
ChatOk == {[ok |-> TRUE, text |-> "short answer"], [ok |-> TRUE, text |-> LongAnswer]}

ChatFails == [ok |-> FALSE, text |-> ""]

ChatReplies == ChatOk \cup {ChatFails}

\* the replies of the three stages of a team run
TeamReplies ==
    [1..3 -> {[ok |-> TRUE, text |-> "findings A"], [ok |-> TRUE, text |-> "findings B"],
              ChatFails}]

SetUser(user_id, gen, rnd, io) ==
    LET su == set_user(agent, profiles, file, user_id, gen, now, rnd, io)
    IN /\ steps < MaxSteps
       /\ gen \notin DOMAIN profiles
       /\ agent' = su[1]
       /\ profiles' = su[2].profiles
       /\ file' = su[2].file
       /\ last' = [op |-> "getOrCreate", arg |-> user_id, kwargs |-> <<>>,
                   outcome |-> su[2].outcome, ok |-> su[2].ok, ids |-> su[2].ids,
                   saved |-> su[2].saved]
       /\ allSavesOk' = (allSavesOk /\ su[2].saved # "failed")
       /\ run' = Outcome("set_user", IF su[3] THEN "raised" ELSE "returned", "none",
                         "", EmptyMap, <<>>)
       /\ steps' = steps + 1
       /\ UNCHANGED <<now, subject, context, procVars>>

\* agent.run(query); log keeps the query and the final output of each call
\* that reached add_interaction
AgentRunCall(query, reply, io) ==
    LET ar == agent_run(agent, profiles, file, query, reply, now, io)
        updates == agent.has_agent /\ reply.ok /\ agent.current_user_id # NoId
    IN /\ agent' = ar[1]
       /\ profiles' = ar[2].profiles
       /\ file' = ar[2].file
       /\ last' = IF updates
                  THEN [op |-> "update", arg |-> agent.current_user_id,
                        kwargs |-> <<<<"interaction_count",
                                      Len(ar[1].interaction_history)>>>>,
                        outcome |-> ar[2].outcome, ok |-> ar[2].ok, ids |-> ar[2].ids,
                        saved |-> ar[2].saved]
                  ELSE last
       /\ allSavesOk' = (allSavesOk /\ ar[2].saved # "failed")
       /\ run' = ar[3]
       /\ log' = IF agent.has_agent /\ reply.ok
                 THEN Append(log, [op |-> "add_interaction", query |-> query,
                                   response |-> reply.text])
                 ELSE log
       /\ steps' = steps + 1
       /\ UNCHANGED <<now, subject, context, proc, other>>

AgentRun(query, reply, io) ==
    /\ steps < MaxSteps
    /\ AgentRunCall(query, reply, io)

TeamRun(query, replies) ==
    /\ steps < MaxSteps
    /\ run' = team_run(query, replies)
    /\ log' = Append(log, [op |-> "team_run", query |-> query, replies |-> replies])
    /\ steps' = steps + 1
    /\ UNCHANGED <<profiles, file, now, last, allSavesOk, subject, context, agent,
                   proc, other>>

Search(query, ok) ==
    /\ steps < MaxSteps
    /\ run' = search(query, ok)
    /\ steps' = steps + 1
    /\ UNCHANGED <<profiles, file, now, last, allSavesOk, subject, context, agent,
                   procVars>>

NextAgent ==
    \/ \E user_id \in Ids \cup {NoId}, gen \in GenIds, rnd \in StoreRandom,
          io \in IOOutcomes : SetUser(user_id, gen, rnd, io)
    \/ \E query \in Queries, reply \in ChatReplies, io \in IOOutcomes :
          AgentRun(query, reply, io)
    \/ \E query \in Queries, replies \in TeamReplies : TeamRun(query, replies)
    \/ \E query \in Queries, ok \in BOOLEAN : Search(query, ok)

SpecAgent == Init /\ [][NextAgent]_vars

-----------------------------------------------------------------------------
(* The shared-file specification: two managers constructed on the same     *)
(* backing file, each then called in any order                             *)

Instances == {1, 2}

\* the in-memory mapping of a manager
Mapping(inst) == IF inst = 1 THEN profiles ELSE other

\* both constructors have loaded the file
InitShared ==
    /\ file \in InitFiles
    /\ profiles = load_profiles(EmptyMap, file, "3f2a9c1e")
    /\ other = load_profiles(EmptyMap, file, "3f2a9c1e")
    /\ now = 0
    /\ last = [op |-> "init", arg |-> NoId, kwargs |-> <<>>, outcome |-> "returned",
               ok |-> TRUE, ids |-> {}, saved |-> "none"]
    /\ allSavesOk = TRUE
    /\ steps = 0
    /\ subject = UserProfile(NoId, NoId, 0, 0)
    /\ context = ""
    /\ agent = PersonalizedSearchAgent
    /\ run = NoRun
    /\ proc = NoProcess
    /\ log = <<>>

\* a call on one manager; log keeps which manager was called and the ids of
\* the profiles the call created and saved
SharedCall(inst, op, arg, kwargs, r) ==
    /\ steps < MaxSteps
    /\ profiles' = IF inst = 1 THEN r.profiles ELSE profiles
    /\ other' = IF inst = 2 THEN r.profiles ELSE other
    /\ file' = r.file
    /\ last' = [op |-> op, arg |-> arg, kwargs |-> kwargs, outcome |-> r.outcome,
                ok |-> r.ok, ids |-> r.ids, saved |-> r.saved]
    /\ allSavesOk' = (allSavesOk /\ r.saved # "failed")
    /\ steps' = steps + 1
    /\ log' = Append(log, [op |-> op, who |-> inst,
                           created |-> IF op = "getOrCreate" /\ r.saved = "ok"
                                       THEN r.ids ELSE {}])
    /\ UNCHANGED <<now, subject, context, agent, run, proc>>

SharedGetOrCreate(inst, user_id, gen, rnd, io) ==
    /\ gen \notin DOMAIN Mapping(inst)
    /\ SharedCall(inst, "getOrCreate", user_id, <<>>,
                  get_or_create_profile(Mapping(inst), file, user_id, gen, now, now,
                                        rnd, io))

SharedUpdate(inst, user_id, io) ==
    SharedCall(inst, "update", user_id, <<<<"city", "Lahore">>>>,
               update_profile(Mapping(inst), file, user_id, <<<<"city", "Lahore">>>>,
                              now, io))

SharedDelete(inst, user_id, io) ==
    SharedCall(inst, "delete", user_id, <<>>,
               delete_profile(Mapping(inst), file, user_id, io))

SharedSave(inst, io) ==
    SharedCall(inst, "save", NoId, <<>>,
               Result(Mapping(inst), save_profiles(Mapping(inst), file, io), "returned",
                      TRUE, {}, Saved(Mapping(inst), io)))

NextShared ==
    \/ \E inst \in Instances, user_id \in Ids \cup {NoId}, gen \in GenIds,
          rnd \in StoreRandom, io \in IOOutcomes :
          SharedGetOrCreate(inst, user_id, gen, rnd, io)
    \/ \E inst \in Instances, user_id \in Ids, io \in IOOutcomes :
          SharedUpdate(inst, user_id, io)
    \/ \E inst \in Instances, user_id \in Ids, io \in IOOutcomes :
          SharedDelete(inst, user_id, io)
    \/ \E inst \in Instances, io \in IOOutcomes : SharedSave(inst, io)

SpecShared == InitShared /\ [][NextShared]_vars

-----------------------------------------------------------------------------
(* The history specification: on each store the constructor can leave,     *)
(* set_user and then agent.run again and again, each run with its own      *)
(* query and a short or a long final output                                *)

HistorySetUser ==
    /\ steps = 0
    /\ \E user_id \in UserIds \cup {NoId}, gen \in GenIds :
          SetUser(user_id, gen, [c |-> 1, nI |-> 1, nT |-> 1, s |-> [i \in 1..4 |-> 1]],
                  "ok")

\* the run after steps - 1 earlier runs; its query is "q" written steps times
HistoryRun ==
    /\ steps >= 1
    /\ steps <= MaxRuns
    /\ \E reply \in ChatOk : AgentRunCall(Repeat("q", steps), reply, "ok")

NextHistory ==
    \/ HistorySetUser
    \/ HistoryRun

SpecHistory == Init /\ [][NextHistory]_vars

-----------------------------------------------------------------------------
(* The command-line specification: main run once, on each store the        *)
(* constructor can leave, for each argument list and each environment      *)

\* the argument lists: none, the four commands (complete and incomplete),
\* and queries with and without --user-id and --team
ArgLists ==
    {<<>>,
     <<"--help">>,
     <<"--list-users">>,
     <<"--show-profile", "u1">>,
     <<"--show-profile">>,
     <<"--update-profile", "u1", "city", "Lahore">>,
     <<"--update-profile", "u1", "user_id", "u2">>,
     <<"--update-profile", "u1">>,
     <<"latest AI news">>,
     <<"latest", "AI", "news">>,
     <<"--user-id", "u1", "latest AI news">>,
     <<"--user-id">>,
     <<"--team", "latest AI news">>,
     <<"--team", "--user-id", "u1", "latest AI news">>}

InitMain ==
    /\ file \in InitFiles
    /\ profiles = load_profiles(EmptyMap, file, "3f2a9c1e")
    /\ now = 0
    /\ last = [op |-> "init", arg |-> NoId, kwargs |-> <<>>, outcome |-> "returned",
               ok |-> TRUE, ids |-> {}, saved |-> "none"]
    /\ allSavesOk = TRUE
    /\ steps = 0
    /\ subject = UserProfile(NoId, NoId, 0, 0)
    /\ context = ""
    /\ agent = PersonalizedSearchAgent
    /\ run = NoRun
    /\ \E argv \in ArgLists, gemini_key \in BOOLEAN, tavily_key \in BOOLEAN :
          proc = Process(argv, gemini_key, tavily_key)
    /\ other = EmptyMap
    /\ log = <<>>

Main(gen, rnd, io1, io2, reply, replies) ==
    \E m \in {main(proc, agent, profiles, file, gen, now, rnd, io1, io2, reply, replies)} :
       /\ gen \notin DOMAIN profiles
       /\ proc' = m.proc
       /\ agent' = m.agent
       /\ profiles' = m.store.profiles
       /\ file' = m.store.file
       /\ run' = m.run
       /\ last' = [op |-> "main", arg |-> NoId, kwargs |-> <<>>,
                   outcome |-> m.store.outcome, ok |-> m.store.ok,
                   ids |-> m.store.ids, saved |-> m.store.saved]
       /\ allSavesOk' = (allSavesOk /\ m.store.saved # "failed")
       /\ steps' = steps + 1
       /\ UNCHANGED <<now, subject, context, other, log>>

RunMain ==
    /\ proc.status = "started"
    /\ \E gen \in GenIds, rnd \in StoreRandom, io1 \in IOOutcomes, io2 \in IOOutcomes,
          reply \in ChatReplies, replies \in TeamReplies :
          Main(gen, rnd, io1, io2, reply, replies)

NextMain == RunMain

SpecMain == InitMain /\ [][NextMain]_vars

-----------------------------------------------------------------------------
(* The extraction specification: extract_content applied once to each list *)
(* of urls up to the bound, under each pattern of failing calls            *)

Urls == {"https://a.example", "https://b.example"}

InitExtract ==
    /\ file = MissingFile
    /\ profiles = EmptyMap
    /\ now = 0
    /\ last = [op |-> "init", arg |-> NoId, kwargs |-> <<>>, outcome |-> "returned",
               ok |-> TRUE, ids |-> {}, saved |-> "none"]
    /\ allSavesOk = TRUE
    /\ steps = 0
    /\ subject = UserProfile(NoId, NoId, 0, 0)
    /\ context = ""
    /\ agent = PersonalizedSearchAgent
    /\ proc = NoProcess
    /\ other = EmptyMap
    /\ log = <<>>
    /\ \E n \in 0..MaxUrls :
          \E urls \in [1..n -> Urls], fails \in [1..n -> BOOLEAN] :
              run = [NoRun EXCEPT !.op = "called", !.urls = urls, !.fails = fails]

\* the tool call in flight is handled
ExtractContent ==
    /\ run.op = "called"
    /\ run' = [extract_content(run.urls, run.fails) EXCEPT
                   !.urls = run.urls, !.fails = run.fails]
    /\ steps' = steps + 1
    /\ UNCHANGED <<profiles, file, now, last, allSavesOk, subject, context, agent,
                   procVars>>

NextExtract == ExtractContent

SpecExtract == InitExtract /\ [][NextExtract]_vars

-----------------------------------------------------------------------------
(* Properties of the store *)

Range(seq) == {seq[i] : i \in 1..Len(seq)}

NoDuplicates(seq) == Cardinality(Range(seq)) = Len(seq)

\* two profile objects agree on the ten declared fields
SameProfileFields(p, q) == \A fld \in DeclaredFields : p[fld] = q[fld]

\* two mappings hold the same ids with the same declared field values
SameProfiles(a, b) ==
    /\ DOMAIN a = DOMAIN b
    /\ \A k \in DOMAIN a : SameProfileFields(a[k], b[k])

\* what a store constructed now on backing file f holds
FreshStore(f) == load_profiles(EmptyMap, f, "3f2a9c1e")

\* this step is a call of operation op
Called(op) == steps' = steps + 1 /\ last'.op = op

\* the latest call was a mutating operation that returned
MutationReturned ==
    /\ last.outcome = "returned"
    /\ \/ last.op = "getOrCreate"
       \/ last.op \in {"update", "delete"} /\ last.ok

\* C1: after a mutating operation (creation, update, delete, or the
\* interaction_count increment of getOrCreate on a known id) has returned,
\* with every save so far successful, the backing file holds exactly the
\* in-memory mapping: a fresh store loaded from it has the same profiles with
\* the same field values.
C1_PersistedAfterEveryMutation ==
    (allSavesOk /\ MutationReturned) =>
        (file.state = "json" /\ SameProfiles(FreshStore(file), profiles))

\* C2: across getOrCreate, update (any field map), get and list, the
\* interaction_count of a profile that stays in the store never decreases.
C2_InteractionCountNeverDecreases ==
    [][(\E op \in {"getOrCreate", "update", "get", "list"} : Called(op)) =>
          \A k \in DOMAIN profiles \cap DOMAIN profiles' :
              profiles'[k].interaction_count >= profiles[k].interaction_count]_vars

\* C3: getOrCreate(id) for an id in the store returns that profile with
\* interaction_count one greater, and leaves its user_id, its created_at and
\* the set of ids in the store unchanged.
C3_GetOrCreateKnownIncrements ==
    [][(Called("getOrCreate") /\ last'.arg \in DOMAIN profiles) =>
          /\ last'.outcome = "returned"
          /\ last'.ids = {last'.arg}
          /\ DOMAIN profiles' = DOMAIN profiles
          /\ profiles'[last'.arg].interaction_count =
                 profiles[last'.arg].interaction_count + 1
          /\ profiles'[last'.arg].user_id = profiles[last'.arg].user_id
          /\ profiles'[last'.arg].created_at = profiles[last'.arg].created_at]_vars

\* C4: getOrCreate(id) for an id not in the store inserts and returns a
\* profile keyed by that id with interaction_count 0, 2 to 4 distinct
\* interests from the interest vocabulary and 1 to 3 distinct preferred
\* topics from the tech-topic vocabulary, whatever the generator draws.
C4_CreatedProfileShape ==
    [][(Called("getOrCreate") /\ last'.arg # NoId /\ last'.arg \notin DOMAIN profiles) =>
          /\ last'.outcome = "returned"
          /\ last'.ids = {last'.arg}
          /\ last'.arg \in DOMAIN profiles'
          /\ LET p == profiles'[last'.arg]
             IN /\ p.user_id = last'.arg
                /\ p.interaction_count = 0
                /\ Len(p.interests) \in 2..4
                /\ Range(p.interests) \subseteq Range(all_interests)
                /\ NoDuplicates(p.interests)
                /\ Len(p.preferred_topics) \in 1..3
                /\ Range(p.preferred_topics) \subseteq Range(tech_topics)
                /\ NoDuplicates(p.preferred_topics)]_vars

\* a store in which getOrCreate has just created a profile with four
\* interests and three preferred topics
C4_Witness ==
    /\ last.op = "getOrCreate"
    /\ last.arg \in DOMAIN profiles
    /\ profiles[last.arg].interaction_count = 0
    /\ Len(profiles[last.arg].interests) = 4
    /\ Len(profiles[last.arg].preferred_topics) = 3

\* C5: update(id, fieldMap) for an id not in the store returns failure
\* without raising and leaves the mapping and the backing file as they were.
C5_UpdateUnknownIsNoOp ==
    [][(Called("update") /\ last'.arg \notin DOMAIN profiles) =>
          /\ last'.outcome = "returned"
          /\ ~last'.ok
          /\ profiles' = profiles
          /\ file' = file]_vars

\* C6: update(id, {field: value}) for a known id and a declared field
\* returns success, sets the field to the value, sets last_updated to a
\* value >= the prior one, and leaves every other field of the profile and
\* every other profile unchanged.
C6_UpdateSetsDeclaredField ==
    [][(/\ Called("update")
        /\ last'.arg \in DOMAIN profiles
        /\ Len(last'.kwargs) = 1
        /\ last'.kwargs[1][1] \in DeclaredFields) =>
          LET id == last'.arg
              field == last'.kwargs[1][1]
              value == last'.kwargs[1][2]
          IN /\ last'.outcome = "returned"
             /\ last'.ok
             /\ DOMAIN profiles' = DOMAIN profiles
             /\ profiles'[id][field] = value
             /\ profiles'[id].last_updated >= profiles[id].last_updated
             /\ \A fld \in DeclaredFields \ {field, "last_updated"} :
                    profiles'[id][fld] = profiles[id][fld]
             /\ profiles'[id].shadowed = profiles[id].shadowed
             /\ \A k \in DOMAIN profiles \ {id} : profiles'[k] = profiles[k]]_vars

\* C7: for a known id, an update whose keys are all outside the ten declared
\* fields is silently ignored: it returns, and changes nothing on the profile
\* object except last_updated.
C7_OnlyDeclaredFieldsSet ==
    [][(/\ Called("update")
        /\ last'.arg \in DOMAIN profiles
        /\ last'.kwargs # <<>>
        /\ \A i \in 1..Len(last'.kwargs) : last'.kwargs[i][1] \notin DeclaredFields) =>
          /\ last'.outcome = "returned"
          /\ last'.arg \in DOMAIN profiles'
          /\ [profiles'[last'.arg] EXCEPT !.last_updated = 0] =
                 [profiles[last'.arg] EXCEPT !.last_updated = 0]]_vars

\* C8: every key k of the mapping maps to a profile whose user_id is k.
C8_UserIdIsKey ==
    \A k \in DOMAIN profiles : profiles[k].user_id = k

\* an update of a known id was called with the keyword user_id, and the
\* profile still has the user_id it is stored under
C8_Witness ==
    /\ last.op = "update"
    /\ last.kwargs = <<<<"user_id", "u2">>>>
    /\ last.arg \in DOMAIN profiles
    /\ profiles[last.arg].user_id = last.arg

\* C9: saving the mapping (the write itself succeeding) and loading the
\* file into a fresh store yields the same ids and field-for-field identical
\* profiles.
C9_RoundTrip ==
    LET saved == save_profiles(profiles, file, "ok")
    IN saved.state = "json" /\ SameProfiles(FreshStore(saved), profiles)

FileMissingOrCorrupt(f) ==
    \/ f.state \in {"missing", "unparsable"}
    \/ \E k \in DOMAIN f.data : from_dict_raises(f.data[k])

\* C10: a load on a missing or corrupt backing file does not raise and
\* leaves the mapping empty, at construction and at any later load.
C10_LoadFailureEmptiesStore ==
    [][(Called("load") /\ FileMissingOrCorrupt(file)) =>
          (last'.outcome = "returned" /\ profiles' = EmptyMap)]_vars

\* C11: when the save inside getOrCreate, update or delete fails, the call
\* still returns its normal result and the mapping is what the same call
\* leaves when the save succeeds.
C11_SaveFailureAbsorbed ==
    [][(last'.saved = "failed" /\ steps' = steps + 1
        /\ last'.op \in {"getOrCreate", "update", "delete"}) =>
          /\ last'.outcome = "returned"
          /\ last'.ok
          /\ \/ /\ last'.op = "update"
                /\ profiles' = [profiles EXCEPT ![last'.arg] =
                                   Profile_update_profile(@, last'.kwargs, now)[1]]
             \/ /\ last'.op = "delete"
                /\ profiles' = MapDel(profiles, last'.arg)
             \/ /\ last'.op = "getOrCreate"
                /\ \E k \in last'.ids :
                      /\ last'.ids = {k}
                      /\ k \notin DOMAIN profiles
                      /\ DOMAIN profiles' = DOMAIN profiles \cup {k}
                      /\ profiles'[k].user_id = k
                      /\ profiles'[k].interaction_count = 0
                      /\ \A j \in DOMAIN profiles : profiles'[j] = profiles[j]]_vars

\* an update has just returned success although its save failed
C11_Witness ==
    /\ last.op = "update"
    /\ last.saved = "failed"
    /\ last.outcome = "returned"
    /\ last.ok

\* C12: get(id) returns the stored profile when id is known and "not found"
\* otherwise, list() returns exactly the stored profiles, and neither changes
\* the mapping or the backing file.
C12_GetAndListReadOnly ==
    [][(Called("get") \/ Called("list")) =>
          /\ last'.outcome = "returned"
          /\ profiles' = profiles
          /\ file' = file
          /\ Called("get") =>
                 /\ last'.ok = (last'.arg \in DOMAIN profiles)
                 /\ last'.ids = {last'.arg} \cap DOMAIN profiles
          /\ Called("list") => last'.ids = DOMAIN profiles]_vars

\* get has just found a profile
C12_Witness ==
    /\ last.op = "get"
    /\ last.ok
    /\ last.ids = {last.arg}
    /\ last.arg \in DOMAIN profiles

C14_LastUpdatedNotBeforeCreated ==
    \A k \in DOMAIN profiles : profiles[k].last_updated >= profiles[k].created_at

\* C15: no getOrCreate, update, get, list, save or load changes the
\* created_at of a profile that is in the store.
C15_CreatedAtSetOnce ==
    [][(\E op \in {"getOrCreate", "update", "get", "list", "save", "load"} : Called(op)) =>
          \A k \in DOMAIN profiles \cap DOMAIN profiles' :
              profiles'[k].created_at = profiles[k].created_at]_vars

\* C16: the context of a profile whose only set field is the name "Alex" is
\* exactly "You're helping Alex. Personalize examples and explanations
\* accordingly.", and the context of a profile with an empty name is the
\* empty string whatever its other fields are.
C16_NameOnlyAndNoName ==
    last.op = "context" =>
        /\ ( /\ subject.name = "Alex"
             /\ subject.city = ""
             /\ subject.profession = ""
             /\ subject.interests = <<>>
             /\ subject.expertise_level = "beginner"
             /\ subject.preferred_topics = <<>> )
           => context = "You're helping Alex. Personalize examples and explanations accordingly."
        /\ subject.name = "" => context = ""

\* the context of the profile whose only set field is the name "Alex" has
\* been built
C16_Witness ==
    /\ last.op = "context"
    /\ subject.name = "Alex"
    /\ subject.city = ""
    /\ subject.profession = ""
    /\ subject.interests = <<>>
    /\ subject.expertise_level = "beginner"
    /\ subject.preferred_topics = <<>>
    /\ context = "You're helping Alex. Personalize examples and explanations accordingly."

\* the first n elements of seq written one after the other, each but the
\* first preceded by ", "
RECURSIVE Listed(_, _, _)
Listed(seq, i, n) ==
    IF i > n \/ i > Len(seq) THEN ""
    ELSE (IF i > 1 THEN ", " ELSE "") \o seq[i] \o Listed(seq, i + 1, n)

\* C17: for a profile with a non-empty name the context is the name clause
\* followed, in this order and each preceded by one space, by the city,
\* profession, interests, expertise and topics clauses; the city, profession,
\* interests and topics clauses are there exactly when the field is
\* non-empty, the expertise clause exactly when the level is not "beginner";
\* at most the first 3 interests and the first 2 topics are listed; the
\* string ends with ". Personalize examples and explanations accordingly."
C17_ClausesInOrder ==
    (last.op = "context" /\ subject.name # "") =>
        context =
            "You're helping " \o subject.name
            \o (IF subject.city # "" THEN " from " \o subject.city ELSE "")
            \o (IF subject.profession # ""
                THEN " who works as a " \o subject.profession ELSE "")
            \o (IF subject.interests # <<>>
                THEN " who likes " \o Listed(subject.interests, 1, 3) ELSE "")
            \o (IF subject.expertise_level # "beginner"
                THEN " with " \o subject.expertise_level \o " expertise" ELSE "")
            \o (IF subject.preferred_topics # <<>>
                THEN " and prefers topics like " \o Listed(subject.preferred_topics, 1, 2)
                ELSE "")
            \o ". Personalize examples and explanations accordingly."

\* a context with all six clauses, built from a profile with more than 3
\* interests and more than 2 topics
C17_Witness ==
    /\ last.op = "context"
    /\ Len(subject.interests) > 3
    /\ Len(subject.preferred_topics) > 2
    /\ context = "You're helping Sam from Lahore who works as a teacher who likes artificial intelligence, machine learning, data science with expert expertise and prefers topics like AI and machine learning, web development. Personalize examples and explanations accordingly."

\* the get_user_context("u1") call that follows update("u1", city="Lahore") on
\* a "u1" that get_or_create_profile("u1") has just created with the name "Sam"
C18_Scenario ==
    /\ steps = 2
    /\ last.op = "update"
    /\ last.arg = "u1"
    /\ last.kwargs = <<<<"city", "Lahore">>>>
    /\ last.ok
    /\ "u1" \in DOMAIN profiles
    /\ profiles["u1"].name = "Sam"
    /\ profiles["u1"].interaction_count = 0
    /\ Called("context")
    /\ last'.arg = "u1"

\* C18: update("u1", {"city": "Lahore"}) on a "u1" that getOrCreate("u1") has
\* just created with the name "Sam", followed by building the context of
\* "u1", yields exactly "You're helping Sam from Lahore. Personalize examples
\* and explanations accordingly."
C18_EndToEndContext ==
    [][C18_Scenario =>
          context' = "You're helping Sam from Lahore. Personalize examples and explanations accordingly."]_vars

\* C18, amended: in that scenario the context begins with "You're helping Sam
\* from Lahore" and goes on with the clauses of the profession, the
\* interests and the topics that creation filled in (and of the expertise
\* level when it is not "beginner"), before the closing sentence.
C18_EndToEndContextWithMockData ==
    [][C18_Scenario =>
          /\ last'.outcome = "returned"
          /\ subject'.profession # ""
          /\ Len(subject'.interests) >= 2
          /\ Len(subject'.preferred_topics) >= 1
          /\ context' =
                "You're helping Sam from Lahore"
                \o " who works as a " \o subject'.profession
                \o " who likes " \o Listed(subject'.interests, 1, 3)
                \o (IF subject'.expertise_level # "beginner"
                    THEN " with " \o subject'.expertise_level \o " expertise" ELSE "")
                \o " and prefers topics like " \o Listed(subject'.preferred_topics, 1, 2)
                \o ". Personalize examples and explanations accordingly."]_vars

\* the context of the scenario has been built
C18_Witness ==
    /\ steps = 3
    /\ last.op = "context"
    /\ last.arg = "u1"
    /\ subject.name = "Sam"
    /\ subject.city = "Lahore"
    /\ subject.interaction_count = 1
    /\ context = "You're helping Sam from Lahore who works as a data scientist who likes machine learning, reading, fitness with intermediate expertise and prefers topics like web development, DevOps. Personalize examples and explanations accordingly."

\* some upstream call of the latest operation failed
UpstreamFailed == \E i \in 1..Len(run.calls) : ~run.calls[i].ok

\* C19: when a web-search call or a chat-completion call fails, in the search
\* tool, in the single-agent run or in a stage of the team run, the operation
\* returns, and what it returns is an error string.
C19_UpstreamFailureIsErrorString ==
    (run.op \in {"search", "agent_run", "team_run"} /\ UpstreamFailed) =>
        (run.outcome = "returned" /\ run.kind = "error")

\* C20: extract_content attempts every url in list order, returns, and gives
\* each distinct url an entry that is its content or an error string naming
\* the url; the entry is the content whenever the last call for the url
\* succeeded, whatever happened to the urls before it.
C20_PerUrlIsolation ==
    run.op = "extract_content" =>
        /\ run.outcome = "returned"
        /\ Len(run.calls) = Len(run.urls)
        /\ \A i \in 1..Len(run.urls) :
              /\ run.calls[i].sent = run.urls[i]
              /\ run.calls[i].ok = ~run.fails[i]
        /\ DOMAIN run.entries = Range(run.urls)
        /\ \A i \in 1..Len(run.urls) :
              (\A j \in (i + 1)..Len(run.urls) : run.urls[j] # run.urls[i]) =>
                  run.entries[run.urls[i]] =
                      IF run.fails[i]
                      THEN "Error extracting content from " \o run.urls[i] \o ": "
                               \o UpstreamError
                      ELSE ExtractedContent(run.urls[i])

\* a list whose first url failed and whose second, a different url, was
\* extracted
C20_Witness ==
    /\ run.op = "extract_content"
    /\ Len(run.urls) >= 2
    /\ run.urls[1] # run.urls[2]
    /\ run.fails[1]
    /\ ~run.fails[2]
    /\ run.entries[run.urls[1]] =
           "Error extracting content from " \o run.urls[1] \o ": " \o UpstreamError
    /\ run.entries[run.urls[2]] = ExtractedContent(run.urls[2])

\* main has just run
MainRan == proc.status = "started" /\ proc'.status # "started"

\* the arguments hold one of the four profile-management commands
IsCommand(argv) ==
    \/ In("--help", argv)
    \/ In("--list-users", argv)
    \/ In("--show-profile", argv)
    \/ In("--update-profile", argv)

\* C21: started with both API keys and --list-users, --show-profile <id>,
\* --update-profile <id> <field> <value> or --help, main handles the command,
\* runs no agent or team query, and returns normally: the fatal-error path is
\* not reached and the exit status is not non-zero.
C21_CommandsCompleteCleanly ==
    [][(MainRan /\ proc.gemini_key /\ proc.tavily_key /\ IsCommand(proc.argv)) =>
          /\ proc'.command # "none"
          /\ proc'.mode = "none"
          /\ run'.calls = <<>>
          /\ proc'.status = "returned"
          /\ ~proc'.fatal
          /\ proc'.exit_code = 0]_vars

\* C22: a query run by the single agent without a user id builds the agent
\* with the base instructions only, creates no profile, and changes neither
\* the in-memory store nor the backing file.
C22_NoUserIdIsGeneric ==
    [][(MainRan /\ proc'.mode = "agent" /\ agent'.current_user_id = NoId) =>
          /\ agent'.has_agent
          /\ agent'.instructions = AGENT_INSTRUCTIONS
          /\ profiles' = profiles
          /\ file' = file]_vars

\* C23: with GEMINI_API_KEY or TAVILY_API_KEY unset, main prints the setup
\* instructions and exits with a non-zero status; no client, model or agent
\* has been created, no command handled, no search or chat-completion call
\* issued, and the store and its file are as they were.
C23_MissingCredentialsFatal ==
    [][(MainRan /\ (~proc.gemini_key \/ ~proc.tavily_key)) =>
          /\ proc'.status = "exited"
          /\ proc'.exit_code # 0
          /\ proc'.setup_printed
          /\ proc'.created = {}
          /\ proc'.command = "none"
          /\ proc'.mode = "none"
          /\ run'.calls = <<>>
          /\ agent' = agent
          /\ profiles' = profiles
          /\ file' = file]_vars

\* a process started with a command and without the search key has exited
\* after printing the setup instructions
C23_Witness ==
    /\ proc.status = "exited"
    /\ proc.gemini_key
    /\ ~proc.tavily_key
    /\ IsCommand(proc.argv)
    /\ proc.setup_printed
    /\ proc.exit_code = 1
    /\ proc.created = {}

\* sub occurs in text
Contains(text, sub) ==
    \E i \in 0..(Len(text) - Len(sub)) : SubSeq(text, i + 1, i + Len(sub)) = sub

\* C24: a team run calls the Researcher, then the Analyst, then the Writer,
\* each after the one before it has answered; the Analyst's prompt contains
\* the Researcher's output and the Writer's prompt the Analyst's output; the
\* result is the Writer's output; after a stage that fails no later stage is
\* called.
C24_TeamPipelineOrder ==
    (run.op = "team_run" /\ Len(log) > 0) =>
        LET replies == log[Len(log)].replies
            calls == run.calls
            n == Len(calls)
            stages == <<"researcher", "analyst", "writer">>
        IN /\ n \in 1..3
           /\ \A i \in 1..n :
                 /\ calls[i].api = "chat"
                 /\ calls[i].who = stages[i]
                 /\ calls[i].ok = replies[i].ok
                 /\ i < n => replies[i].ok
           /\ (n < 3) => ~replies[n].ok
           /\ Contains(calls[1].sent, log[Len(log)].query)
           /\ \A i \in 2..n : Contains(calls[i].sent, replies[i - 1].text)
           /\ (n = 3 /\ replies[3].ok) <=>
                  (run.outcome = "returned" /\ run.kind = "text"
                       /\ run.text = replies[3].text)

\* a team run whose three stages answered, with different outputs of the
\* Researcher and the Analyst
C24_Witness ==
    /\ run.op = "team_run"
    /\ Len(run.calls) = 3
    /\ run.outcome = "returned"
    /\ Len(log) > 0
    /\ log[Len(log)].replies[1].text = "findings A"
    /\ log[Len(log)].replies[2].text = "findings B"
    /\ run.text = log[Len(log)].replies[3].text
    /\ Contains(run.calls[2].sent, "findings A")
    /\ Contains(run.calls[3].sent, "findings B")

\* C26: the history holds at most 10 entries, which are the most recent
\* min(n, 10) of the n interactions added, in call order; each stored response
\* is the original when that has at most 200 characters and otherwise its
\* first 200 characters followed by "..."; the interaction_count a run writes
\* to the profile is between 1 and 10.
C26_HistoryBoundedFifo ==
    LET history == agent.interaction_history
        n == Len(log)
        m == IF n < 10 THEN n ELSE 10
    IN /\ Len(history) = m
       /\ \A i \in 1..m :
             LET original == log[n - m + i]
             IN /\ history[i].query = original.query
                /\ history[i].response =
                       IF Len(original.response) <= 200
                       THEN original.response
                       ELSE SubSeq(original.response, 1, 200) \o "..."
       /\ last.op = "update" =>
             /\ last.kwargs[1][1] = "interaction_count"
             /\ last.kwargs[1][2] \in 1..10
             /\ last.kwargs[1][2] = m
             /\ (last.outcome = "returned" /\ last.ok) =>
                    profiles[last.arg].interaction_count = m

\* after more than 10 runs the history starts at the second of them, holds
\* a response that was cut, and the count written to the profile is 10
C26_Witness ==
    /\ Len(log) > 10
    /\ Len(agent.interaction_history) = 10
    /\ agent.interaction_history[1].query = log[Len(log) - 9].query
    /\ agent.interaction_history[1].query # log[1].query
    /\ \E i \in 1..10 : Len(agent.interaction_history[i].response) = 203
    /\ last.op = "update"
    /\ last.ok
    /\ profiles[last.arg].interaction_count = 10

\* a manager has just been called and the call saved
SavedBy(inst) ==
    /\ steps' = steps + 1
    /\ log'[Len(log')].who = inst
    /\ last'.saved # "none"

\* the mapping of a manager after the step
MappingAfter(inst) == IF inst = 1 THEN profiles' ELSE other'

====
